---- MODULE Spec2Model ----
(***************************************************************************)
(* Model of src/main.rs: the phase-accumulator sequencer `synthesize` and  *)
(* the PCM encoder `write_sf`.                                             *)
(*                                                                         *)
(* The f64 values of the sequencer (phase, phase increment, last phase)    *)
(* are modelled bit-exactly.  A non-negative f64 is a sequence of limbs    *)
(* v[1..NLimbs] in base 2^LimbBits: v[1] is the integer part and v[k+1]    *)
(* has weight Base^(-k).  Every arithmetic result is rounded to MantBits   *)
(* significant bits, ties to even, as IEEE-754 binary64 does.              *)
(***************************************************************************)
EXTENDS Integers, Sequences, FiniteSets, TLC

\* ---- bounds of the model ----
LimbBits == 11
FracLimbs == 6
MaxFreqLen == 2
MaxWaveLen == 3
MaxOffLen == 5
MaxBreakpoints == 3
SmallRate == 10
RefFreq == 100
MaxAudioLen == 2
SampleDenLog == 3
MaxSampleNum == 12

\* ---- constants of the program ----
MantBits == 53
DefaultRate == 48000
amplitude == 8388607

Base == 2 ^ LimbBits
NLimbs == FracLimbs + 1

\* ---- binary64 arithmetic on limb sequences ----
RECURSIVE Zeros(_)
Zeros(len) == IF len = 0 THEN <<>> ELSE Append(Zeros(len - 1), 0)

Zero == Zeros(NLimbs)
One == <<1>> \o Zeros(FracLimbs)
Half == <<0, Base \div 2>> \o Zeros(FracLimbs - 1)

\* number of significant bits of a limb x > 0
BitLen(x) == CHOOSE b \in 1..LimbBits : 2 ^ (b - 1) <= x /\ x < 2 ^ b

\* v + c * Base^(1 - m): the carry moves towards the integer limb
RECURSIVE Carry(_, _, _)
Carry(v, m, c) ==
    IF c = 0 \/ m < 1 THEN v
    ELSE Carry([v EXCEPT ![m] = (v[m] + c) % Base], m - 1, (v[m] + c) \div Base)

\* the value of e, computed once, handed to Op
WithValue(e, Op(_)) == CHOOSE r \in {Op(y) : y \in {e}} : TRUE

\* round v to nearest, ties to even, keeping MantBits significant bits;
\* sticky tells that the exact value has non-zero bits below the last limb
RoundLimbs(v, sticky) ==
    IF \A k \in 1..NLimbs : v[k] = 0 THEN v
    ELSE
    LET f == CHOOSE k \in 1..NLimbs : v[k] # 0 /\ \A h \in 1..(k - 1) : v[h] = 0
        \* bits are numbered from 1 at the top of limb 1
        g0 == (f - 1) * LimbBits + (LimbBits - BitLen(v[f]) + 1)
        gl == g0 + MantBits - 1
        ml == ((gl - 1) \div LimbBits) + 1
        d == LimbBits - (((gl - 1) % LimbBits) + 1)
    IN  IF ml > NLimbs THEN v
        ELSE
        LET lowv == v[ml] % (2 ^ d)
            tail == \E k \in (ml + 1)..NLimbs : v[k] # 0
            nxt == IF ml < NLimbs THEN v[ml + 1] ELSE 0
            rnd == IF d > 0 THEN lowv \div (2 ^ (d - 1)) ELSE nxt \div (Base \div 2)
            rest == IF d > 0
                    THEN lowv % (2 ^ (d - 1)) # 0 \/ tail \/ sticky
                    ELSE \/ nxt % (Base \div 2) # 0
                         \/ \E k \in (ml + 2)..NLimbs : v[k] # 0
                         \/ sticky
            lsb == (v[ml] \div (2 ^ d)) % 2
            kept == SubSeq(v, 1, ml - 1) \o <<v[ml] - lowv>> \o Zeros(NLimbs - ml)
        IN  IF rnd = 1 /\ (rest \/ lsb = 1) THEN Carry(kept, ml, 2 ^ d) ELSE kept

RoundNearestEven(w, sticky) == WithValue(w, LAMBDA v : RoundLimbs(v, sticky))

RECURSIVE AddFrom(_, _, _, _)
AddFrom(a, b, m, c) ==
    IF m = 0 THEN <<>>
    ELSE Append(AddFrom(a, b, m - 1, (a[m] + b[m] + c) \div Base),
                (a[m] + b[m] + c) % Base)

\* f64 addition a + b of non-negative values
FAdd(a, b) == RoundNearestEven(AddFrom(a, b, NLimbs, 0), FALSE)

RECURSIVE DivLimbs(_, _, _)
DivLimbs(r, d, k) ==
    IF k = 0 THEN <<>>
    ELSE <<(r * Base) \div d>> \o DivLimbs((r * Base) % d, d, k - 1)

RECURSIVE RemAfter(_, _, _)
RemAfter(r, d, k) == IF k = 0 THEN r ELSE RemAfter((r * Base) % d, d, k - 1)

\* f64 division num / den of two integers that are exact f64 values
FDiv(num, den) ==
    RoundNearestEven(<<num \div den>> \o DivLimbs(num % den, den, FracLimbs),
                     RemAfter(num % den, den, FracLimbs) # 0)

\* a >= b
FGe(a, b) == \/ \A k \in 1..NLimbs : a[k] = b[k]
             \/ \E k \in 1..NLimbs : /\ a[k] > b[k]
                                     /\ \A h \in 1..(k - 1) : a[h] = b[h]
FLt(a, b) == ~FGe(a, b)

\* floor of a non-negative value: its integer limb
FFloor(a) == <<a[1]>> \o Zeros(FracLimbs)

\* a - b where b is an integer not above a: the result is exact
FSubInt(a, b) == <<a[1] - b[1]>> \o Tail(a)

\* ---- the program's pure functions ----
Max(x, y) == IF x >= y THEN x ELSE y
Min(x, y) == IF x <= y THEN x ELSE y

\* fn freq_to_phase_inc: freq / sample_rate as f64
freq_to_phase_inc(freq, rate) == FDiv(freq, rate)

\* faulty variant of fmod: the phase is reset instead of wrapped
fmod_reset(numer, denom) == Zero

\* fn fmod: numer - floor(numer / denom) * denom.  Its only callers pass
\* denom = 1.0, for which numer / denom and rquot * denom are exact.
fmod(numer, denom) ==
    LET rquot == FFloor(numer)
    IN  FSubInt(numer, rquot)

\* enum Wave: the six phase-driven shapes and DC(f64)
Shape(name) == [shape |-> name, dc |-> 0]
DC(val) == [shape |-> "DC", dc |-> val]
AllWaves == <<Shape("Sine"), Shape("Cosine"), Shape("Pulse"), Shape("Triangle"),
              Shape("SawUp"), Shape("SawDown"), DC(4)>>

\* fn wave: DC ignores phase and offset; the amplitude of every other shape
\* is a function of (shape, cur_phase, phase_offset), kept as that triple
wave(w, ph, po) ==
    IF w.shape = "DC" THEN [shape |-> "DC", phase |-> Zero, offset |-> 0, amp |-> w.dc]
    ELSE [shape |-> w.shape, phase |-> ph, offset |-> po, amp |-> 0]

\* phase_offsets: Option<&[f64]>; an offset q stands for q / 2^SampleDenLog
None == [some |-> FALSE, v |-> <<>>]
Some(offs) == [some |-> TRUE, v |-> offs]

\* phase_offsets.map_or(0, |p| p.len())
ph_length_of(po) == IF po.some THEN Len(po.v) ELSE 0

\* phase_offsets.map_or(0.0, |p| p[i % p.len()]), for a non-empty p
OffsetAt(po, idx) == IF po.some THEN po.v[(idx % Len(po.v)) + 1] ELSE 0

\* frequencies[i % frequencies.len()]
FreqAt(fs, idx) == fs[(idx % Len(fs)) + 1]

\* faulty variant of WaveAt: the active waveform never leaves the first entry
WaveAt_first(ws, idx) == ws[1]

\* waves[i % waves.len()]
WaveAt(ws, idx) == ws[(idx % Len(ws)) + 1]

\* faulty variant of LoopCond: the loop runs one step too far
LoopCond_inclusive(idx, bound) == idx <= bound

\* while i < n
LoopCond(idx, bound) == idx < bound

\* faulty variant of ShouldAdvance: every breakpoints value from 2 up splits the cycle
ShouldAdvance_atLeast2(ph, last, bp) ==
    \/ FGe(ph, One)
    \/ (bp >= 2 /\ FGe(ph, Half) /\ FLt(last, Half))

\* faulty variant of ShouldAdvance: the half-cycle test ignores last_phase
ShouldAdvance_noLast(ph, last, bp) ==
    \/ FGe(ph, One)
    \/ (bp = 2 /\ FGe(ph, Half))

\* (cur_phase >= 1.0) || ((breakpoints == 2) && (cur_phase >= 0.5) && (last_phase < 0.5))
ShouldAdvance(ph, last, bp) ==
    \/ FGe(ph, One)
    \/ (bp = 2 /\ FGe(ph, Half) /\ FLt(last, Half))

\* i += 1
NextIndex(idx) == idx + 1

\* ---- write_sf: samples are numerators q of q / 2^SampleDenLog ----
SampleDen == 2 ^ SampleDenLog

\* sample.min(1.0).max(-1.0)
Clip(q) == Max(Min(q, SampleDen), 0 - SampleDen)

\* `x as i32` of the f64 x = num / SampleDen: truncation towards zero
AsI32(num) == IF num >= 0 THEN num \div SampleDen ELSE 0 - ((0 - num) \div SampleDen)

\* (sample.min(1.0).max(-1.0) * amplitude) as i32
Quantize(q) == AsI32(Clip(q) * amplitude)

\* ---- bounded inputs ----
FreqSet == {1, 4, 25}

RECURSIVE SeqsOfLen(_, _)
SeqsOfLen(S, len) ==
    IF len = 0 THEN {<<>>}
    ELSE {Append(sq, x) : sq \in SeqsOfLen(S, len - 1), x \in S}

SeqsUpTo(S, len) == UNION {SeqsOfLen(S, m) : m \in 0..len}

RECURSIVE WavePrefix(_)
WavePrefix(len) ==
    IF len = 0 THEN <<>>
    ELSE Append(WavePrefix(len - 1), AllWaves[((len - 1) % Len(AllWaves)) + 1])

RECURSIVE OffsetPrefix(_)
OffsetPrefix(len) == IF len = 0 THEN <<>> ELSE Append(OffsetPrefix(len - 1), len)

FreqInputs == SeqsUpTo(FreqSet, MaxFreqLen)
WaveInputs == {WavePrefix(m) : m \in 0..MaxWaveLen}
OffsetInputs == {None} \cup {Some(OffsetPrefix(m)) : m \in 0..MaxOffLen}
AudioInputs == SeqsUpTo((0 - MaxSampleNum)..MaxSampleNum, MaxAudioLen)

\* ---- state ----
VARIABLES frequencies, waves, breakpoints, sample_rate, phase_offsets,
          pc, panic, n, output, cur_wave, cur_phase_inc, cur_phase,
          last_phase, i, phase_offset, audio, written

inputs == <<frequencies, waves, breakpoints, sample_rate, phase_offsets>>
locals == <<n, output, cur_wave, cur_phase_inc, cur_phase, last_phase, i, phase_offset>>
vars == <<inputs, pc, panic, locals, audio, written>>

LocalsUnset ==
    /\ n = 0 /\ output = <<>> /\ cur_wave = AllWaves[1]
    /\ cur_phase_inc = Zero /\ cur_phase = Zero /\ last_phase = Zero
    /\ i = 0 /\ phase_offset = 0

\* a call of synthesize with arguments from the bounded input sets
Init ==
    /\ \/ /\ frequencies \in FreqInputs
          /\ waves \in WaveInputs
          /\ phase_offsets \in OffsetInputs
          /\ sample_rate = SmallRate
       \/ /\ frequencies = <<RefFreq>>
          /\ waves = WavePrefix(1)
          /\ phase_offsets = None
          /\ sample_rate = DefaultRate
    /\ breakpoints \in 0..MaxBreakpoints
    /\ pc = "call" /\ panic = "none"
    /\ LocalsUnset
    /\ audio = <<>> /\ written = <<>>

\* lines 164-172: the locals are set up; indexing an empty slice and a
\* remainder by a zero length panic
Initialize ==
    /\ pc = "call"
    /\ n' = Max(ph_length_of(phase_offsets), Max(Len(frequencies), Len(waves)))
    /\ output' = <<>>
    /\ IF Len(waves) = 0 \/ Len(frequencies) = 0
       THEN /\ pc' = "panic"
            /\ panic' = "index out of bounds"
            /\ UNCHANGED <<cur_wave, cur_phase_inc, cur_phase, last_phase, i, phase_offset>>
       ELSE IF phase_offsets.some /\ Len(phase_offsets.v) = 0
       THEN /\ pc' = "panic"
            /\ panic' = "attempt to calculate the remainder with a divisor of zero"
            /\ cur_wave' = waves[1]
            /\ cur_phase_inc' = freq_to_phase_inc(frequencies[1], sample_rate)
            /\ cur_phase' = Zero /\ last_phase' = Zero /\ i' = 0
            /\ UNCHANGED phase_offset
       ELSE /\ pc' = "loop"
            /\ panic' = "none"
            /\ cur_wave' = waves[1]
            /\ cur_phase_inc' = freq_to_phase_inc(frequencies[1], sample_rate)
            /\ cur_phase' = Zero /\ last_phase' = Zero /\ i' = 0
            /\ phase_offset' = OffsetAt(phase_offsets, 0)
    /\ UNCHANGED <<inputs, audio, written>>

\* lines 174-186: one iteration of the sample loop
LoopIter ==
    /\ pc = "loop"
    /\ LoopCond(i, n)
    /\ output' = Append(output, wave(cur_wave, cur_phase, phase_offset))
    /\ \E ph \in {FAdd(cur_phase, cur_phase_inc)} :
           IF ShouldAdvance(ph, last_phase, breakpoints)
           THEN /\ i' = NextIndex(i)
                /\ cur_phase' = fmod(ph, One)
                /\ cur_phase_inc' = freq_to_phase_inc(FreqAt(frequencies, i'), sample_rate)
                /\ cur_wave' = WaveAt(waves, i')
                /\ last_phase' = cur_phase'
                /\ phase_offset' = OffsetAt(phase_offsets, i')
           ELSE /\ cur_phase' = ph
                /\ UNCHANGED <<i, cur_phase_inc, cur_wave, last_phase, phase_offset>>
    /\ UNCHANGED <<inputs, pc, panic, n, audio, written>>

\* line 188: the loop condition fails and output is returned
Return ==
    /\ pc = "loop"
    /\ ~LoopCond(i, n)
    /\ pc' = "done"
    /\ UNCHANGED <<inputs, panic, locals, audio, written>>

Next == Initialize \/ LoopIter \/ Return

Spec == Init /\ [][Next]_vars

\* the loop is sequential code: an enabled step is eventually taken
FairSpec == Spec /\ WF_vars(Next)

\* ---- write_sf on a bounded buffer of samples ----
InitWrite ==
    /\ audio \in AudioInputs
    /\ written = <<>>
    /\ pc = "write" /\ panic = "none"
    /\ frequencies = <<>> /\ waves = <<>> /\ phase_offsets = None
    /\ sample_rate = DefaultRate /\ breakpoints = 1
    /\ LocalsUnset

\* lines 203-207: the next sample is clipped, scaled, cast and written
WriteSample ==
    /\ pc = "write"
    /\ Len(written) < Len(audio)
    /\ written' = Append(written, Quantize(audio[Len(written) + 1]))
    /\ UNCHANGED <<inputs, pc, panic, locals, audio>>

\* line 208: writer.finalize()
Finalize ==
    /\ pc = "write"
    /\ Len(written) = Len(audio)
    /\ pc' = "finalized"
    /\ UNCHANGED <<inputs, panic, locals, audio, written>>

NextWrite == WriteSample \/ Finalize

WriteSpec == InitWrite /\ [][NextWrite]_vars

\* ---- properties ----
NonEmptyInputs == Len(frequencies) > 0 /\ Len(waves) > 0
EmptyOffsetsGiven == phase_offsets.some /\ Len(phase_offsets.v) = 0
SingleEntry == Len(frequencies) = 1 /\ Len(waves) = 1 /\ ~phase_offsets.some

\* the phase before wrapping that the current iteration tests
PreWrapPhase == FAdd(cur_phase, cur_phase_inc)

\* C1: for non-empty frequencies and waveforms (frequencies > 0) synthesize
\* terminates; step_index grows by at most 1 per step and never passes n,
\* the loop returns exactly when step_index = n, and every iteration,
\* the one of the final advance included, adds exactly one sample.
C1_Termination ==
    /\ [](NonEmptyInputs => i <= n /\ (pc = "done" => i = n))
    /\ [][NonEmptyInputs => (i' = i \/ i' = i + 1)]_vars
    /\ [][(NonEmptyInputs /\ pc = "loop" /\ i < n)
            => (pc' = "loop" /\ Len(output') = Len(output) + 1)]_vars
    /\ [][(NonEmptyInputs /\ pc = "loop" /\ i = n)
            => (pc' = "done" /\ output' = output)]_vars
    /\ (NonEmptyInputs => <>(pc = "done" \/ (pc = "panic" /\ EmptyOffsetsGiven)))

C1_Witness ==
    /\ pc = "done" /\ i = n /\ n >= 2
    /\ Len(frequencies) = 2 /\ Len(output) > n

\* C2: whenever a sample is about to be emitted with step_index = i, the
\* active increment, waveform and offset are the entries at i modulo the
\* length of their own sequence (offset 0.0 when no offsets are given).
C2_IndependentCycling ==
    pc = "loop" =>
        /\ cur_phase_inc = FDiv(frequencies[(i % Len(frequencies)) + 1], sample_rate)
        /\ cur_wave = waves[(i % Len(waves)) + 1]
        /\ phase_offset = IF phase_offsets.some
                          THEN phase_offsets.v[(i % Len(phase_offsets.v)) + 1]
                          ELSE 0

C2_Witness ==
    /\ pc = "loop" /\ i = 4 /\ n = 5
    /\ Len(frequencies) = 2 /\ Len(waves) = 3 /\ Len(phase_offsets.v) = 5
    /\ cur_wave = waves[2] /\ phase_offset = phase_offsets.v[5]

\* C3: with empty frequencies or empty waveforms synthesize fails before any
\* sample is emitted, through an explicit precondition check and not through
\* an out-of-bounds index or a division by zero.
C3_ExplicitPreconditionCheck ==
    ((Len(frequencies) = 0 \/ Len(waves) = 0) /\ pc \notin {"call", "write", "finalized"})
        => /\ pc = "panic"
           /\ Len(output) = 0
           /\ panic # "index out of bounds"
           /\ panic # "attempt to calculate the remainder with a divisor of zero"

\* C4: a single-entry run without phase offsets and breakpoints = 1 returns
\* exactly ceil(sample_rate / frequency) samples.
C4_FullCycleLength ==
    (SingleEntry /\ breakpoints = 1 /\ pc = "done")
        => /\ Len(output) * frequencies[1] >= sample_rate
           /\ (Len(output) - 1) * frequencies[1] < sample_rate

\* C5: the same run with breakpoints = 2 returns the smallest k with
\* k * frequency / sample_rate >= 0.5 samples.
C5_HalfCycleLength ==
    (SingleEntry /\ breakpoints = 2 /\ pc = "done")
        => /\ 2 * Len(output) * frequencies[1] >= sample_rate
           /\ 2 * (Len(output) - 1) * frequencies[1] < sample_rate

\* C6: a supplied phase-offset sequence of length zero is handled like an
\* absent one: no failure, offset 0.0, n = max(len(frequencies), len(waveforms)).
C6_EmptyOffsetsLikeAbsent ==
    (NonEmptyInputs /\ EmptyOffsetsGiven /\ pc # "call")
        => /\ pc # "panic"
           /\ phase_offset = 0
           /\ n = Max(Len(frequencies), Len(waves))

\* C7: with breakpoints other than 2 an iteration advances step_index
\* exactly when the phase has reached 1.0, as it does with breakpoints = 1.
C7_OnlyFullCycleAdvances ==
    [][(breakpoints # 2 /\ pc = "loop" /\ i < n)
         => /\ (i' = i + 1) <=> FGe(PreWrapPhase, One)
            /\ (i' = i) <=> FLt(PreWrapPhase, One)]_vars

C7_Witness ==
    /\ breakpoints = MaxBreakpoints /\ breakpoints > 2
    /\ pc = "loop" /\ i = 0
    /\ FGe(cur_phase, Half) /\ FLt(last_phase, Half)

\* C8: write_sf writes round(clip(s, -1.0, 1.0) * (2^23 - 1)), rounded to the
\* nearest integer, for every sample s.
C8_RoundedQuantization ==
    \A j \in 1..Len(written) :
        LET num == Clip(audio[j]) * amplitude
            mag == IF num >= 0 THEN num ELSE 0 - num
            rounded == (2 * mag + SampleDen) \div (2 * SampleDen)
        IN  /\ written[j] = IF num >= 0 THEN rounded ELSE 0 - rounded
            /\ written[j] >= 0 - amplitude
            /\ written[j] <= amplitude

\* C9: every advance replaces the phase by its fractional remainder and
\* sets last_phase to it; a half-cycle advance leaves the phase unchanged;
\* at every sample emission 0 <= phase < 1.
C9_PhaseContinuity ==
    /\ [](pc = "loop" => cur_phase[1] = 0)
    /\ [][(pc = "loop" /\ i' = i + 1)
            => /\ cur_phase'[1] = 0
               /\ Tail(cur_phase') = Tail(PreWrapPhase)
               /\ last_phase' = cur_phase'
               /\ (FLt(PreWrapPhase, One) => cur_phase' = PreWrapPhase)]_vars

C9_Witness ==
    /\ pc = "loop" /\ breakpoints = 2 /\ i = 2
    /\ last_phase = cur_phase /\ cur_phase # Zero /\ FLt(cur_phase, Half)

\* C10: with breakpoints = 2 and every increment in (0, 0.5) the advances
\* alternate: the 1st, 3rd, ... happen with 0.5 <= phase < 1.0 and the
\* 2nd, 4th, ... with phase >= 1.0.
AllIncrementsBelowHalf ==
    \A j \in 1..Len(frequencies) :
        frequencies[j] > 0 /\ 2 * frequencies[j] < sample_rate

C10_Alternation ==
    [][(breakpoints = 2 /\ AllIncrementsBelowHalf /\ pc = "loop" /\ i' = i + 1)
         => IF i % 2 = 0
            THEN FGe(PreWrapPhase, Half) /\ FLt(PreWrapPhase, One)
            ELSE FGe(PreWrapPhase, One)]_vars

C10_Witness ==
    /\ breakpoints = 2 /\ AllIncrementsBelowHalf /\ NonEmptyInputs
    /\ pc = "done" /\ i >= 4

====
